---- MODULE Spec2Model ----
(***************************************************************************)
(* Model of analyze_logs.py: the SSE replay inside extract_api_data, the   *)
(* per-line extraction (extract_api_data, extract_statsig_data), the scan  *)
(* loop and the correlation loop of analyze_log_file, and the exit code of *)
(* main.                                                                   *)
(*                                                                         *)
(* Python values are encoded as sequences: None is << >> and a value v is  *)
(* << v >>, so that "unset" differs from every value, zero included.  A    *)
(* Python dict is a function from key strings to such values.              *)
(***************************************************************************)
EXTENDS Integers, Sequences, FiniteSets, TLC

VARIABLES
    file_exists,                  \* whether open(file_path) succeeds
    file,                         \* the lines of the log file
    pc,                           \* position of main / analyze_log_file
    line_num,                     \* enumerate(f, 1) of the scan loop
    api_requests,                 \* list of API records
    statsig_events,               \* list of telemetry records
    warnings,                     \* line numbers of the "Could not parse" diagnostics
    corr_idx,                     \* index of api_req in the correlation loop
    matched_requests,             \* list of merged records
    unmatched_api_requests,       \* list of API records
    error,                        \* the exception that left analyze_log_file, or "none"
    exit_code,                    \* main's exit status, -1 while running
    analysis_summary,             \* the dict main writes to claude_api_analysis.json, None before
    sse_body,                     \* response_body of the replay under way
    sse_pc,                       \* position of the replay in extract_api_data
    sse_idx,                      \* index of the line of the for loop at line 43
    input_tokens,                 \* the five locals of lines 34-38
    output_tokens,
    cached_input_tokens,
    cache_creation_input_tokens,
    assistant_message

scan_vars == <<file_exists, file, pc, line_num, api_requests, statsig_events, warnings,
               corr_idx, matched_requests, unmatched_api_requests, error, exit_code,
               analysis_summary>>
sse_vars == <<sse_body, sse_pc, sse_idx, input_tokens, output_tokens,
              cached_input_tokens, cache_creation_input_tokens, assistant_message>>
vars == <<scan_vars, sse_vars>>

(***************************************************************************)
(* Bounds of the model.                                                    *)
(***************************************************************************)
MaxSseLines == 3
MaxLines == 3
MaxApi == 2
MaxTel == 2

None == << >>
Some(v) == << v >>

\* All sequences over S of length at most n.
SeqUpTo(S, n) == UNION {[1..k -> S] : k \in 0..n}

(***************************************************************************)
(* SSE replay: extract_api_data, lines 34-71.                              *)
(*                                                                         *)
(* One line of response_body.split('\n') is described by what the code     *)
(* can observe of it:                                                      *)
(*   form   "unrelated"    does not start with 'data: '                    *)
(*          "empty"        'data: ' followed by blanks only                *)
(*          "ping"         payload starts with {"type": "ping"}            *)
(*          "undecodable"  json.loads raises JSONDecodeError               *)
(*          "nonobject"    decodes to a list, number or string             *)
(*          "event"        decodes to an object                            *)
(*   marker whether the text of the line contains 'message_start'          *)
(*   type   data.get('type')                                               *)
(*   shape  of the part of the object the branch for its type reads        *)
(*   inp, out, cached, creation   the four usage fields (None when absent) *)
(*   text   delta.text                                                     *)
(***************************************************************************)
NoUsage == [inp |-> None, out |-> None, cached |-> None, creation |-> None]

SseLine(form, marker, type, shape, usage, text) ==
    [form |-> form, marker |-> marker, type |-> type, shape |-> shape,
     inp |-> usage.inp, out |-> usage.out, cached |-> usage.cached,
     creation |-> usage.creation, text |-> text]

Plain(form, marker) == SseLine(form, marker, "", "", NoUsage, "")

\* {"type":"message_start","message":{"usage":{...}}} and its misshapen variants:
\* "no_usage" (message without usage), "no_message" (no message key),
\* "bad_message" (message is not an object), "bad_usage" (usage is not an object).
MessageStart(shape, usage) == SseLine("event", TRUE, "message_start", shape, usage, "")

\* {"type":"content_block_delta","delta":{"text":...}} and its variants: "no_text",
\* "no_delta", "bad_delta" (delta is a number), "bad_text" (text is not a string).
ContentDelta(shape, text) == SseLine("event", FALSE, "content_block_delta", shape, NoUsage, text)

\* {"type":"message_delta","usage":{"output_tokens":...}} and its variants:
\* "no_usage", "bad_usage" (usage is not an object).
MessageDelta(shape, out) ==
    SseLine("event", FALSE, "message_delta", shape, [NoUsage EXCEPT !.out = out], "")

FullUsage == [inp |-> Some(12), out |-> Some(1), cached |-> Some(3), creation |-> Some(4)]

SseLines ==
    {Plain("unrelated", FALSE), Plain("empty", FALSE), Plain("ping", FALSE),
     Plain("undecodable", FALSE), Plain("undecodable", TRUE), Plain("nonobject", FALSE),
     MessageStart("ok", FullUsage), MessageStart("no_usage", NoUsage),
     MessageStart("no_message", NoUsage), MessageStart("bad_message", NoUsage),
     MessageStart("bad_usage", NoUsage),
     ContentDelta("ok", "Hi"), ContentDelta("ok", " there"), ContentDelta("no_text", ""),
     ContentDelta("bad_text", ""), ContentDelta("bad_delta", ""),
     MessageDelta("ok", Some(2)), MessageDelta("ok", None), MessageDelta("bad_usage", None),
     SseLine("event", FALSE, "other", "ok", NoUsage, "")}

\* The five locals of lines 34-38.
SseInit ==
    [input_tokens |-> None, output_tokens |-> None, cached_input_tokens |-> None,
     cache_creation_input_tokens |-> None, assistant_message |-> ""]

\* Line 40: 'message_start' in response_body (the body is a string).
HasMarker(body) == \E i \in 1..Len(body) : body[i].marker

\* Whether the try block of lines 45-67 raises on this line (either except clause).
SseRaises(l) ==
    \/ l.form \in {"undecodable", "nonobject"}
    \/ l.form = "event" /\ l.shape \in {"bad_message", "bad_usage", "bad_delta", "bad_text"}

\* Lines 52-57: the message_start branch.  usage = data['message'].get('usage', {}),
\* then four assignments of usage.get(...).
SseMessageStart(st, l) ==
    [st EXCEPT !.input_tokens = l.inp,
               !.output_tokens = l.out,
               !.cached_input_tokens = l.cached,
               !.cache_creation_input_tokens = l.creation]

\* Lines 60-62: the content_block_delta branch.
SseContentDelta(st, l) ==
    IF l.shape = "ok"
    THEN [st EXCEPT !.assistant_message = st.assistant_message \o l.text]
    ELSE st

\* A message_delta taken as an increment of the running count.
SseMessageDeltaSum(st, l) ==
    [st EXCEPT !.output_tokens =
        IF st.output_tokens # None /\ l.out # None
        THEN Some(st.output_tokens[1] + l.out[1]) ELSE l.out]

\* Lines 65-66: the message_delta branch.
SseMessageDelta(st, l) == [st EXCEPT !.output_tokens = l.out]

\* A replay that gives up its results at the first failing payload.
SseStepDropOnError(st, l) ==
    IF l.form # "event" THEN (IF SseRaises(l) THEN SseInit ELSE st)
    ELSE IF SseRaises(l) THEN SseInit
    ELSE IF l.type = "message_start" /\ l.shape # "no_message" THEN SseMessageStart(st, l)
    ELSE IF l.type = "content_block_delta" /\ l.shape # "no_delta" THEN SseContentDelta(st, l)
    ELSE IF l.type = "message_delta" /\ l.shape # "no_usage" THEN SseMessageDelta(st, l)
    ELSE st

\* One iteration of the for loop at line 43.
SseStep(st, l) ==
    IF l.form # "event" THEN st                          \* lines 44, 47-49, 68-69, 70-71
    ELSE IF SseRaises(l) THEN st                         \* raises before any assignment
    ELSE IF l.type = "message_start" /\ l.shape # "no_message" THEN SseMessageStart(st, l)
    ELSE IF l.type = "content_block_delta" /\ l.shape # "no_delta" THEN SseContentDelta(st, l)
    ELSE IF l.type = "message_delta" /\ l.shape # "no_usage" THEN SseMessageDelta(st, l)
    ELSE st

RECURSIVE SseLoop(_, _, _)
SseLoop(st, body, i) ==
    IF i > Len(body) THEN st ELSE SseLoop(SseStep(st, body[i]), body, i + 1)

\* Lines 34-71 as a function of the response body.
ReplaySse(body) == IF HasMarker(body) THEN SseLoop(SseInit, body, 1) ELSE SseInit

SseState ==
    [input_tokens |-> input_tokens, output_tokens |-> output_tokens,
     cached_input_tokens |-> cached_input_tokens,
     cache_creation_input_tokens |-> cache_creation_input_tokens,
     assistant_message |-> assistant_message]

SetSseState(st) ==
    /\ input_tokens' = st.input_tokens
    /\ output_tokens' = st.output_tokens
    /\ cached_input_tokens' = st.cached_input_tokens
    /\ cache_creation_input_tokens' = st.cache_creation_input_tokens
    /\ assistant_message' = st.assistant_message

\* Line 40, condition true: enter the loop.
SseEnter ==
    /\ sse_pc = "gate"
    /\ HasMarker(sse_body)
    /\ sse_pc' = "loop"
    /\ sse_idx' = 1
    /\ UNCHANGED <<scan_vars, sse_body, input_tokens, output_tokens, cached_input_tokens,
                   cache_creation_input_tokens, assistant_message>>

\* Line 40, condition false: the five locals keep their initial values.
SseSkip ==
    /\ sse_pc = "gate"
    /\ ~HasMarker(sse_body)
    /\ sse_pc' = "done"
    /\ UNCHANGED <<scan_vars, sse_body, sse_idx, input_tokens, output_tokens,
                   cached_input_tokens, cache_creation_input_tokens, assistant_message>>

\* Lines 43-71: one line of the body.
SseLineStep ==
    /\ sse_pc = "loop"
    /\ sse_idx <= Len(sse_body)
    /\ SetSseState(SseStep(SseState, sse_body[sse_idx]))
    /\ sse_idx' = sse_idx + 1
    /\ UNCHANGED <<scan_vars, sse_body, sse_pc>>

\* The for loop at line 43 is exhausted.
SseEnd ==
    /\ sse_pc = "loop"
    /\ sse_idx > Len(sse_body)
    /\ sse_pc' = "done"
    /\ UNCHANGED <<scan_vars, sse_body, sse_idx, input_tokens, output_tokens,
                   cached_input_tokens, cache_creation_input_tokens, assistant_message>>

ScanIdle ==
    /\ file_exists = TRUE
    /\ file = << >>
    /\ pc = "idle"
    /\ line_num = 0
    /\ api_requests = << >>
    /\ statsig_events = << >>
    /\ warnings = << >>
    /\ corr_idx = 0
    /\ matched_requests = << >>
    /\ unmatched_api_requests = << >>
    /\ error = "none"
    /\ exit_code = -1
    /\ analysis_summary = None

SseInitState(body) ==
    /\ sse_body = body
    /\ sse_pc = "gate"
    /\ sse_idx = 0
    /\ input_tokens = None
    /\ output_tokens = None
    /\ cached_input_tokens = None
    /\ cache_creation_input_tokens = None
    /\ assistant_message = ""

\* The replay of one response body, line by line.
InitSse == ScanIdle /\ \E body \in SeqUpTo(SseLines, MaxSseLines) : SseInitState(body)
NextSse == SseEnter \/ SseSkip \/ SseLineStep \/ SseEnd
SpecSse == InitSse /\ [][NextSse]_vars

(***************************************************************************)
(* Log lines.  One line of the file is described by what the code reads:   *)
(*   json       "blank" (empty after strip), "bad" (json.loads raises      *)
(*              JSONDecodeError), "nonobject" (decodes to a list, number   *)
(*              or string), "object"                                       *)
(*   api        'anyrouter.top' in request.url                             *)
(*   statsig    'statsig.anthropic.com' in request.url                     *)
(*   requestId  log_entry.requestId                                        *)
(*   ts         request.timestamp: None when absent or not an ISO string,  *)
(*              else the datetime [sec, aware] that fromisoformat returns  *)
(*              (aware when the string carries 'Z' or an offset)           *)
(*   model      request.body.model                                         *)
(*   body       response.body as SSE lines (<< >>: no string body)         *)
(*   events     request.body.events                                        *)
(* The other fields of the entry (max_tokens, temperature, messages,       *)
(* system, tools, stream, response.statusCode, response.timestamp) are     *)
(* absent in the lines considered.                                         *)
(***************************************************************************)
LogLine(json, api, statsig, requestId, ts, model, body, events) ==
    [json |-> json, api |-> api, statsig |-> statsig, requestId |-> requestId,
     ts |-> ts, model |-> model, body |-> body, events |-> events]

PlainLine(json) == LogLine(json, FALSE, FALSE, None, None, None, << >>, << >>)
ApiLine(requestId, ts, model, body) ==
    LogLine("object", TRUE, FALSE, requestId, ts, model, body, << >>)
TelLine(ts, events) == LogLine("object", FALSE, TRUE, None, ts, None, << >>, events)

Time(sec, aware) == Some([sec |-> sec, aware |-> aware])

\* One element of request.body.events: eventName and the metadata fields read.
Event(eventName, requestId, model, metrics) ==
    [eventName |-> eventName, requestId |-> requestId, model |-> model,
     inputTokens |-> metrics.inputTokens, outputTokens |-> metrics.outputTokens,
     costUSD |-> metrics.costUSD, durationMs |-> metrics.durationMs,
     ttftMs |-> metrics.ttftMs]

NoMetrics ==
    [inputTokens |-> None, outputTokens |-> None, costUSD |-> None,
     durationMs |-> None, ttftMs |-> None]
FullMetrics ==
    [inputTokens |-> Some(10), outputTokens |-> Some(20), costUSD |-> Some(7),
     durationMs |-> Some(100), ttftMs |-> Some(50)]

\* A response body holding a whole stream: the replay gives input_tokens 12,
\* output_tokens 2 and the text "Hi there".
StreamBody ==
    <<MessageStart("ok", FullUsage), ContentDelta("ok", "Hi"),
      ContentDelta("ok", " there"), MessageDelta("ok", Some(2))>>

(***************************************************************************)
(* extract_api_data, lines 18-126.  The result is [exc, val]: the          *)
(* exception raised ("none" when it returns) and the value returned (None  *)
(* or the record).                                                         *)
(***************************************************************************)
Returns(v) == [exc |-> "none", val |-> v]
Raises(e) == [exc |-> e, val |-> None]

\* Lines 106-126: the dict returned.
ApiRecord(e, sse) ==
    [timestamp |-> e.ts,
     request_id |-> e.requestId,
     model |-> e.model,
     max_tokens |-> None,
     temperature |-> None,
     message_count |-> Some(0),
     system_prompt |-> Some(""),
     system_prompt_length |-> Some(0),
     user_message_length |-> Some(0),
     last_user_message |-> Some(""),
     assistant_message |-> Some(sse.assistant_message),
     input_tokens |-> sse.input_tokens,
     output_tokens |-> sse.output_tokens,
     cached_input_tokens |-> sse.cached_input_tokens,
     cache_creation_input_tokens |-> sse.cache_creation_input_tokens,
     response_status |-> None,
     response_time_ms |-> None,
     tools_available |-> Some(0),
     streaming |-> Some(FALSE)]

\* Lines 18-126.
extract_api_data(e) ==
    IF e.json # "object" THEN Raises("AttributeError")      \* line 20: log_entry.get
    ELSE IF ~e.api THEN Returns(None)                       \* lines 24-25
    ELSE IF e.ts = None THEN Raises("ValueError")           \* line 107: parse_timestamp('')
    ELSE Returns(Some(ApiRecord(e, ReplaySse(e.body))))

(***************************************************************************)
(* extract_statsig_data, lines 128-174.                                    *)
(***************************************************************************)
\* Lines 145-161.
SuccessRecord(e, ev) ==
    [timestamp |-> e.ts,
     event_type |-> Some(ev.eventName),
     model |-> ev.model,
     message_count |-> None,
     input_tokens |-> ev.inputTokens,
     output_tokens |-> ev.outputTokens,
     cached_input_tokens |-> None,
     uncached_input_tokens |-> None,
     duration_ms |-> ev.durationMs,
     ttft_ms |-> ev.ttftMs,
     cost_usd |-> ev.costUSD,
     stop_reason |-> None,
     provider |-> None,
     request_id |-> ev.requestId,
     session_id |-> None]

\* Lines 163-172.
QueryRecord(e, ev) ==
    [timestamp |-> e.ts,
     event_type |-> Some(ev.eventName),
     model |-> ev.model,
     messages_length |-> None,
     temperature |-> None,
     provider |-> None,
     session_id |-> None,
     request_id |-> ev.requestId]

Recognized(ev) == ev.eventName \in {"tengu_api_success", "tengu_api_query"}

\* Lines 139-172: the loop over the events; an event of another name is dropped.
RECURSIVE ExtractEvents(_, _)
ExtractEvents(e, i) ==
    IF i > Len(e.events) THEN << >>
    ELSE LET ev == e.events[i]
             rest == ExtractEvents(e, i + 1)
         IN IF ev.eventName = "tengu_api_success" THEN <<SuccessRecord(e, ev)>> \o rest
            ELSE IF ev.eventName = "tengu_api_query" THEN <<QueryRecord(e, ev)>> \o rest
            ELSE rest

extract_statsig_data(e) ==
    IF e.json # "object" THEN Raises("AttributeError")      \* line 130: log_entry.get
    ELSE IF ~e.statsig THEN Returns(None)                   \* lines 133-134
    ELSE IF e.ts = None /\ \E i \in 1..Len(e.events) : Recognized(e.events[i])
         THEN Raises("ValueError")                          \* lines 146, 164: parse_timestamp('')
    ELSE IF ExtractEvents(e, 1) = << >> THEN Returns(None)  \* line 174
    ELSE Returns(Some(ExtractEvents(e, 1)))

(***************************************************************************)
(* The body of the scan loop, lines 185-204, for one line: what it does to *)
(* the two lists and the diagnostics, or the exception that leaves it.     *)
(***************************************************************************)
ScanState(api, tel, warn, exc) == [api |-> api, tel |-> tel, warn |-> warn, exc |-> exc]

ScanLine(st, l, n) ==
    IF l.json = "blank" THEN st                                        \* lines 186-187
    ELSE IF l.json = "bad" THEN [st EXCEPT !.warn = Append(@, n)]      \* lines 202-204
    ELSE
      LET a == extract_api_data(l)
          api == IF a.exc = "none" /\ a.val # None                     \* lines 193-195
                 THEN Append(st.api, a.val[1]) ELSE st.api
          t == extract_statsig_data(l)
      IN IF a.exc # "none" THEN [st EXCEPT !.exc = a.exc]
         ELSE IF t.exc # "none" THEN [st EXCEPT !.api = api, !.exc = t.exc]
         ELSE IF t.val # None                                          \* lines 198-200
              THEN [st EXCEPT !.api = api, !.tel = st.tel \o t.val[1]]
              ELSE [st EXCEPT !.api = api]

\* Lines 183-204 as a function of the lines of the file, from line n on.
RECURSIVE ScanFrom(_, _, _)
ScanFrom(st, lines, n) ==
    IF n > Len(lines) \/ st.exc # "none" THEN st
    ELSE ScanFrom(ScanLine(st, lines[n], n), lines, n + 1)

ScanAll(lines) == ScanFrom(ScanState(<< >>, << >>, << >>, "none"), lines, 1)

(***************************************************************************)
(* The correlation loop, lines 217-253.                                    *)
(***************************************************************************)
\* Line 243: the width of the timestamp window, in seconds.
Window == 5

Abs(x) == IF x < 0 THEN -x ELSE x

\* The first index of events from i on whose record has the request id of api_req
\* and the event type given, or 0 (lines 222-226 and 230-234).
RECURSIVE FindById(_, _, _, _)
FindById(api_req, events, event_type, i) ==
    IF i > Len(events) THEN 0
    ELSE IF events[i].request_id = api_req.request_id
            /\ events[i].event_type = Some(event_type)
         THEN i
         ELSE FindById(api_req, events, event_type, i + 1)

\* Line 243: the comparison of two datetimes.  Subtracting an aware datetime from a
\* naive one, or the reverse, raises TypeError.
Comparable(t1, t2) == t1[1].aware = t2[1].aware
WithinWindow(t1, t2) == Abs(t1[1].sec - t2[1].sec) < Window

\* Lines 240-246: the first index from i on inside the window, 0 when there is none,
\* -1 when the subtraction raises before a match is found.
RECURSIVE FindByTime(_, _, _)
FindByTime(api_req, events, i) ==
    IF i > Len(events) THEN 0
    ELSE IF events[i].timestamp = None THEN FindByTime(api_req, events, i + 1)
    ELSE IF ~Comparable(api_req.timestamp, events[i].timestamp) THEN -1
    ELSE IF WithinWindow(api_req.timestamp, events[i].timestamp)
            /\ events[i].event_type \in {Some("tengu_api_success"), Some("tengu_api_query")}
         THEN i
         ELSE FindByTime(api_req, events, i + 1)

\* A search that asks for the query event before the success event.
FindMatchQueryFirst(api_req, events) ==
    LET q == FindById(api_req, events, "tengu_api_query", 1)
        s == FindById(api_req, events, "tengu_api_success", 1)
    IN IF q # 0 THEN q
       ELSE IF s # 0 THEN s
       ELSE IF api_req.timestamp # None THEN FindByTime(api_req, events, 1)
       ELSE 0

\* Lines 219-246: the index of matching_event in statsig_events, 0 when
\* matching_event stays None, -1 when line 243 raises TypeError.
FindMatch(api_req, events) ==
    LET s == FindById(api_req, events, "tengu_api_success", 1)
        q == FindById(api_req, events, "tengu_api_query", 1)
    IN IF s # 0 THEN s                                                \* lines 222-226
       ELSE IF q # 0 THEN q                                           \* lines 229-234
       ELSE IF api_req.timestamp # None                               \* lines 237-239
            THEN FindByTime(api_req, events, 1)
       ELSE 0

\* A merge that skips the telemetry fields that are unset.
MergeSkipUnset(api_req, matching_event) ==
    [k \in DOMAIN api_req \cup DOMAIN matching_event |->
        IF k \in DOMAIN matching_event /\ (matching_event[k] # None \/ k \notin DOMAIN api_req)
        THEN matching_event[k] ELSE api_req[k]]

\* Line 250: {**api_req, **matching_event}.
Merge(api_req, matching_event) ==
    [k \in DOMAIN api_req \cup DOMAIN matching_event |->
        IF k \in DOMAIN matching_event THEN matching_event[k] ELSE api_req[k]]

\* A correlator that uses up the telemetry record it has matched.
EventsAfterMatchConsume(events, i) ==
    [j \in 1..(Len(events) - 1) |-> IF j < i THEN events[j] ELSE events[j + 1]]

\* statsig_events after an iteration that matched statsig_events[i]: the loop only
\* reads the list.
EventsAfterMatch(events, i) == events

\* A loop that files a matched API record under the unmatched ones as well.
UnmatchedAfterMatchBoth(unmatched, api_req) == Append(unmatched, api_req)

\* unmatched_api_requests after an iteration that found a match (lines 248-251).
UnmatchedAfterMatch(unmatched, api_req) == unmatched

SseIdle ==
    /\ sse_body = << >>
    /\ sse_pc = "idle"
    /\ sse_idx = 0
    /\ input_tokens = None
    /\ output_tokens = None
    /\ cached_input_tokens = None
    /\ cache_creation_input_tokens = None
    /\ assistant_message = ""

(***************************************************************************)
(* main and analyze_log_file, step by step.                                *)
(***************************************************************************)
\* Line 183: open succeeds.
OpenFile ==
    /\ pc = "open"
    /\ file_exists
    /\ pc' = "scan"
    /\ line_num' = 1
    /\ UNCHANGED <<file_exists, file, api_requests, statsig_events, warnings, corr_idx,
                   matched_requests, unmatched_api_requests, error, exit_code,
                   analysis_summary, sse_vars>>

\* Line 183: open raises FileNotFoundError.
OpenFail ==
    /\ pc = "open"
    /\ ~file_exists
    /\ pc' = "except"
    /\ error' = "FileNotFoundError"
    /\ UNCHANGED <<file_exists, file, line_num, api_requests, statsig_events, warnings,
                   corr_idx, matched_requests, unmatched_api_requests, exit_code,
                   analysis_summary, sse_vars>>

ScanNow == ScanState(api_requests, statsig_events, warnings, "none")

\* Lines 185-187: a blank line.
ScanBlank ==
    /\ pc = "scan"
    /\ line_num <= Len(file)
    /\ file[line_num].json = "blank"
    /\ line_num' = line_num + 1
    /\ UNCHANGED <<file_exists, file, pc, api_requests, statsig_events, warnings, corr_idx,
                   matched_requests, unmatched_api_requests, error, exit_code,
                   analysis_summary, sse_vars>>

\* Lines 190, 202-204: json.loads raises JSONDecodeError.
ScanDecodeError ==
    /\ pc = "scan"
    /\ line_num <= Len(file)
    /\ file[line_num].json = "bad"
    /\ warnings' = ScanLine(ScanNow, file[line_num], line_num).warn
    /\ line_num' = line_num + 1
    /\ UNCHANGED <<file_exists, file, pc, api_requests, statsig_events, corr_idx,
                   matched_requests, unmatched_api_requests, error, exit_code,
                   analysis_summary, sse_vars>>

\* Lines 190-200: the line decodes and both extractions return.
ScanRecord ==
    /\ pc = "scan"
    /\ line_num <= Len(file)
    /\ file[line_num].json \notin {"blank", "bad"}
    /\ LET st == ScanLine(ScanNow, file[line_num], line_num)
       IN /\ st.exc = "none"
          /\ api_requests' = st.api
          /\ statsig_events' = st.tel
    /\ line_num' = line_num + 1
    /\ UNCHANGED <<file_exists, file, pc, warnings, corr_idx, matched_requests,
                   unmatched_api_requests, error, exit_code,
                   analysis_summary, sse_vars>>

\* Lines 190-200: an extraction raises something that is not a JSONDecodeError; the
\* exception leaves analyze_log_file.
ScanRaise ==
    /\ pc = "scan"
    /\ line_num <= Len(file)
    /\ file[line_num].json \notin {"blank", "bad"}
    /\ LET st == ScanLine(ScanNow, file[line_num], line_num)
       IN /\ st.exc # "none"
          /\ api_requests' = st.api
          /\ error' = st.exc
    /\ pc' = "except"
    /\ UNCHANGED <<file_exists, file, line_num, statsig_events, warnings, corr_idx,
                   matched_requests, unmatched_api_requests, exit_code,
                   analysis_summary, sse_vars>>

\* End of file: lines 207-215, the correlation loop starts.
ScanEnd ==
    /\ pc = "scan"
    /\ line_num > Len(file)
    /\ pc' = "correlate"
    /\ corr_idx' = 1
    /\ UNCHANGED <<file_exists, file, line_num, api_requests, statsig_events, warnings,
                   matched_requests, unmatched_api_requests, error, exit_code,
                   analysis_summary, sse_vars>>

\* Lines 217-251: an iteration that finds matching_event.
CorrelateMatched ==
    /\ pc = "correlate"
    /\ corr_idx <= Len(api_requests)
    /\ LET api_req == api_requests[corr_idx]
           i == FindMatch(api_req, statsig_events)
       IN /\ i > 0
          /\ matched_requests' = Append(matched_requests, Merge(api_req, statsig_events[i]))
          /\ unmatched_api_requests' = UnmatchedAfterMatch(unmatched_api_requests, api_req)
          /\ statsig_events' = EventsAfterMatch(statsig_events, i)
    /\ corr_idx' = corr_idx + 1
    /\ UNCHANGED <<file_exists, file, pc, line_num, api_requests, warnings, error,
                   exit_code, analysis_summary, sse_vars>>

\* Lines 217-253: an iteration that finds none.
CorrelateUnmatched ==
    /\ pc = "correlate"
    /\ corr_idx <= Len(api_requests)
    /\ FindMatch(api_requests[corr_idx], statsig_events) = 0
    /\ unmatched_api_requests' = Append(unmatched_api_requests, api_requests[corr_idx])
    /\ corr_idx' = corr_idx + 1
    /\ UNCHANGED <<file_exists, file, pc, line_num, api_requests, statsig_events, warnings,
                   matched_requests, error, exit_code, analysis_summary, sse_vars>>

\* Line 243: the subtraction raises TypeError, which leaves analyze_log_file.
CorrelateRaise ==
    /\ pc = "correlate"
    /\ corr_idx <= Len(api_requests)
    /\ FindMatch(api_requests[corr_idx], statsig_events) = -1
    /\ error' = "TypeError"
    /\ pc' = "except"
    /\ UNCHANGED <<file_exists, file, line_num, api_requests, statsig_events, warnings,
                   corr_idx, matched_requests, unmatched_api_requests, exit_code,
                   analysis_summary, sse_vars>>

\* Lines 255-261: analyze_log_file returns.
Return ==
    /\ pc = "correlate"
    /\ corr_idx > Len(api_requests)
    /\ pc' = "summary"
    /\ UNCHANGED <<file_exists, file, line_num, api_requests, statsig_events, warnings,
                   corr_idx, matched_requests, unmatched_api_requests, error, exit_code,
                   analysis_summary, sse_vars>>

\* Whether print_summary or the summary of main raises on the matched records:
\* line 317 formats cost_usd, lines 374-378 and 430-434 sum five fields; a field
\* that is present and None makes either raise TypeError.
Has(req, k) == k \in DOMAIN req
SummaryRaises(matched) ==
    \E i \in 1..Len(matched) :
        \/ matched[i]["input_tokens"] = None
        \/ matched[i]["output_tokens"] = None
        \/ \E k \in {"cost_usd", "duration_ms", "ttft_ms"} :
              Has(matched[i], k) /\ matched[i][k] = None

\* dict.get(k, 0) of lines 374-378 and 430-434: the value of the key, None
\* included, and 0 only when the record has no such key.
GetOrZero(req, k) == IF Has(req, k) THEN req[k] ELSE Some(0)

\* sum(req.get(k, 0) for req in matched_requests), for records on which it
\* does not raise.
RECURSIVE SumField(_, _)
SumField(matched, k) ==
    IF matched = << >> THEN 0
    ELSE GetOrZero(Head(matched), k)[1] + SumField(Tail(matched), k)

\* The quotient num / den of lines 377-378 and 433-434, kept as a fraction.
Quotient(num, den) == [num |-> num, den |-> den]

\* analysis_summary of lines 421-435: four counts and, when there is a matched
\* record, three totals and two averages over all the matched records.
AnalysisSummary(api, tel, matched, unmatched) ==
    LET counts == [total_api_requests |-> Len(api),
                   total_statsig_events |-> Len(tel),
                   matched_requests |-> Len(matched),
                   unmatched_api_requests |-> Len(unmatched)]
    IN  IF matched = << >> THEN counts
        ELSE counts @@
             [total_input_tokens |-> SumField(matched, "input_tokens"),
              total_output_tokens |-> SumField(matched, "output_tokens"),
              total_cost |-> SumField(matched, "cost_usd"),
              avg_duration_ms |-> Quotient(SumField(matched, "duration_ms"), Len(matched)),
              avg_ttft_ms |-> Quotient(SumField(matched, "ttft_ms"), Len(matched))]

\* Lines 402-439 run to the end: the summary is written, exit code 0.
MainDone ==
    /\ pc = "summary"
    /\ ~SummaryRaises(matched_requests)
    /\ pc' = "exit"
    /\ exit_code' = 0
    /\ analysis_summary' = Some(AnalysisSummary(api_requests, statsig_events,
                                                matched_requests, unmatched_api_requests))
    /\ UNCHANGED <<file_exists, file, line_num, api_requests, statsig_events, warnings,
                   corr_idx, matched_requests, unmatched_api_requests, error, sse_vars>>

\* Lines 402-439 raise; lines 444-446: exit code 1.
MainSummaryRaise ==
    /\ pc = "summary"
    /\ SummaryRaises(matched_requests)
    /\ pc' = "exit"
    /\ error' = "TypeError"
    /\ exit_code' = 1
    /\ UNCHANGED <<file_exists, file, line_num, api_requests, statsig_events, warnings,
                   corr_idx, matched_requests, unmatched_api_requests,
                   analysis_summary, sse_vars>>

\* Lines 441-446: analyze_log_file raised; exit code 1.
MainExcept ==
    /\ pc = "except"
    /\ pc' = "exit"
    /\ exit_code' = 1
    /\ UNCHANGED <<file_exists, file, line_num, api_requests, statsig_events, warnings,
                   corr_idx, matched_requests, unmatched_api_requests, error,
                   analysis_summary, sse_vars>>

(***************************************************************************)
(* Specifications.                                                         *)
(***************************************************************************)
T3 == Time(3, TRUE)

Events ==
    {Event("tengu_api_success", Some("r1"), Some("m"), FullMetrics),
     Event("tengu_api_success", None, None, NoMetrics),
     Event("tengu_api_query", Some("r1"), Some("m"), NoMetrics),
     Event("other", Some("r1"), None, NoMetrics)}

LogLines ==
    {PlainLine("blank"), PlainLine("bad"), PlainLine("nonobject"), PlainLine("object")}
    \cup {ApiLine(rid, ts, Some("m"), StreamBody) : rid \in {None, Some("r1")}, ts \in {None, T3}}
    \cup {TelLine(ts, <<ev>>) : ts \in {None, T3}, ev \in Events}
    \cup {TelLine(Time(3, FALSE), <<Event("tengu_api_query", None, None, NoMetrics)>>)}

\* The whole program on one log file: main, analyze_log_file, exit.
Init ==
    /\ file_exists \in BOOLEAN
    /\ file \in SeqUpTo(LogLines, MaxLines)
    /\ file_exists = FALSE => file = << >>
    /\ pc = "open"
    /\ line_num = 0
    /\ api_requests = << >>
    /\ statsig_events = << >>
    /\ warnings = << >>
    /\ corr_idx = 0
    /\ matched_requests = << >>
    /\ unmatched_api_requests = << >>
    /\ error = "none"
    /\ exit_code = -1
    /\ analysis_summary = None
    /\ SseIdle

Next ==
    \/ OpenFile \/ OpenFail
    \/ ScanBlank \/ ScanDecodeError \/ ScanRecord \/ ScanRaise \/ ScanEnd
    \/ CorrelateMatched \/ CorrelateUnmatched \/ CorrelateRaise \/ Return
    \/ MainDone \/ MainSummaryRaise \/ MainExcept

Spec == Init /\ [][Next]_vars

(***************************************************************************)
(* The correlation loop on the lists the scan has accumulated: the state   *)
(* of analyze_log_file at line 207, for a file of API lines and telemetry  *)
(* lines whose timestamps lie on both sides of the window.                 *)
(***************************************************************************)
CorrApiLines == {ApiLine(rid, T3, Some("m"), StreamBody) : rid \in {None, Some("r1")}}

CorrEvents ==
    {Event("tengu_api_success", Some("r1"), Some("m"), FullMetrics),
     Event("tengu_api_success", Some("r1"), None, NoMetrics),
     Event("tengu_api_success", None, None, NoMetrics),
     Event("tengu_api_query", Some("r1"), Some("m"), NoMetrics),
     Event("tengu_api_query", None, None, NoMetrics)}

CorrTimes == {Time(0, TRUE), Time(5, TRUE), Time(8, TRUE), Time(5, FALSE)}

CorrTelLines == {TelLine(ts, <<ev>>) : ts \in CorrTimes, ev \in CorrEvents}

CorrFiles ==
    {a \o t : a \in SeqUpTo(CorrApiLines, MaxApi), t \in SeqUpTo(CorrTelLines, MaxTel)}

InitCorr ==
    /\ file_exists = TRUE
    /\ file \in CorrFiles
    /\ pc = "correlate"
    /\ line_num = Len(file) + 1
    /\ api_requests = ScanAll(file).api
    /\ statsig_events = ScanAll(file).tel
    /\ warnings = << >>
    /\ corr_idx = 1
    /\ matched_requests = << >>
    /\ unmatched_api_requests = << >>
    /\ error = "none"
    /\ exit_code = -1
    /\ analysis_summary = None
    /\ SseIdle

NextCorr ==
    \/ CorrelateMatched \/ CorrelateUnmatched \/ CorrelateRaise \/ Return
    \/ MainDone \/ MainSummaryRaise \/ MainExcept

SpecCorr == InitCorr /\ [][NextCorr]_vars

(***************************************************************************)
(* Claims about the correlator (SpecCorr).  The tiers are stated here as   *)
(* sets of indices of the telemetry list, apart from the search of the     *)
(* model.                                                                  *)
(***************************************************************************)
MinOf(S) == CHOOSE i \in S : \A j \in S : i <= j

SuccessIds(a, events) ==
    {j \in 1..Len(events) : /\ events[j]["request_id"] = a["request_id"]
                            /\ events[j]["event_type"] = Some("tengu_api_success")}
QueryIds(a, events) ==
    {j \in 1..Len(events) : /\ events[j]["request_id"] = a["request_id"]
                            /\ events[j]["event_type"] = Some("tengu_api_query")}
Seconds(t) == t[1].sec
InsideWindow(a, events) ==
    {j \in 1..Len(events) : /\ Seconds(a["timestamp"]) - Seconds(events[j]["timestamp"]) < 5
                            /\ Seconds(events[j]["timestamp"]) - Seconds(a["timestamp"]) < 5}

\* m holds every field of e with e's value, every other field of a with a's value,
\* and no other field.
IsOverlay(m, a, e) ==
    /\ DOMAIN m = DOMAIN a \cup DOMAIN e
    /\ \A k \in DOMAIN e : m[k] = e[k]
    /\ \A k \in DOMAIN a \ DOMAIN e : m[k] = a[k]

\* The loop is at the API record api_requests[corr_idx].
AtRecord == pc = "correlate" /\ corr_idx <= Len(api_requests)
\* The step appends one record to matched_requests (unmatched_api_requests) only.
MatchedStep ==
    /\ Len(matched_requests') = Len(matched_requests) + 1
    /\ unmatched_api_requests' = unmatched_api_requests
UnmatchedStep ==
    /\ unmatched_api_requests' = Append(unmatched_api_requests, api_requests[corr_idx])
    /\ matched_requests' = matched_requests
LastMatched == matched_requests'[Len(matched_requests')]

\* The correlation loop has gone through every API record.
CorrelationFinished == pc \in {"summary", "exit"} /\ corr_idx = Len(api_requests) + 1

\* The elements of seq at the indices of S, in order.
Pick(seq, S) ==
    LET idx == SelectSeq([i \in 1..Len(seq) |-> i], LAMBDA i : i \in S)
    IN [k \in 1..Len(idx) |-> seq[idx[k]]]

\* C1: when the correlation loop finishes, each API record is in exactly one of
\* matched_requests and unmatched_api_requests: the two lengths add up to
\* len(api_requests), the unmatched list is the API list without the records of
\* some index set M, and the matched list holds, for each index of M in order, the
\* overlay of one telemetry record of the list on that API record.
C1_Partition ==
    CorrelationFinished =>
        /\ Len(matched_requests) + Len(unmatched_api_requests) = Len(api_requests)
        /\ \E M \in SUBSET (1..Len(api_requests)) :
              /\ unmatched_api_requests = Pick(api_requests, (1..Len(api_requests)) \ M)
              /\ Len(matched_requests) = Cardinality(M)
              /\ \A k \in 1..Len(matched_requests) :
                    \E j \in 1..Len(statsig_events) :
                        IsOverlay(matched_requests[k], Pick(api_requests, M)[k],
                                  statsig_events[j])

\* A finished loop that matched one API record and left another unmatched.
C1_Witness ==
    /\ CorrelationFinished
    /\ Len(api_requests) = 2
    /\ Len(matched_requests) = 1
    /\ Len(unmatched_api_requests) = 1

\* C2: tier precedence.  An iteration for an API record whose request id a success
\* record carries appends the overlay of the first such success record, whatever
\* query records carry the id, wherever they stand and whatever the timestamps; a
\* query record is taken (the first with the id) only when no success record has it.
C2_SuccessBeforeQuery ==
    [][AtRecord =>
         LET a == api_requests[corr_idx]
             S == SuccessIds(a, statsig_events)
             Q == QueryIds(a, statsig_events)
         IN /\ S # {} => MatchedStep /\ IsOverlay(LastMatched, a, statsig_events[MinOf(S)])
            /\ (S = {} /\ Q # {}) =>
                   MatchedStep /\ IsOverlay(LastMatched, a, statsig_events[MinOf(Q)])]_vars

\* The loop has matched an API record to a success record that stands after a
\* query record with the same request id and a timestamp nearer to the API record's.
C2_Witness ==
    /\ corr_idx = 2
    /\ Len(statsig_events) = 2
    /\ api_requests[1]["request_id"] = Some("r1")
    /\ statsig_events[1]["request_id"] = Some("r1")
    /\ statsig_events[1]["event_type"] = Some("tengu_api_query")
    /\ statsig_events[1]["timestamp"] = Time(5, TRUE)
    /\ statsig_events[2]["request_id"] = Some("r1")
    /\ statsig_events[2]["event_type"] = Some("tengu_api_success")
    /\ statsig_events[2]["timestamp"] = Time(8, TRUE)
    /\ Len(matched_requests) = 1
    /\ matched_requests[1]["event_type"] = Some("tengu_api_success")
    /\ matched_requests[1]["timestamp"] = Time(8, TRUE)

\* C6: merge semantics.  The record an iteration appends to matched_requests is an
\* overlay of a telemetry record of the list on the API record of the iteration:
\* the telemetry value for every telemetry field, unset values included, the API
\* value for every other field of the API record, and no other field.
C6_Overlay ==
    [][(AtRecord /\ Len(matched_requests') > Len(matched_requests)) =>
          \E j \in 1..Len(statsig_events) :
              IsOverlay(LastMatched, api_requests[corr_idx], statsig_events[j])]_vars

\* A matched record whose request_id, model and input_tokens are unset although the
\* API record's are set, and which keeps the API record's assistant_message.
C6_Witness ==
    /\ Len(matched_requests) = 1
    /\ api_requests[1]["request_id"] = Some("r1")
    /\ api_requests[1]["input_tokens"] = Some(12)
    /\ api_requests[1]["model"] = Some("m")
    /\ matched_requests[1]["request_id"] = None
    /\ matched_requests[1]["model"] = None
    /\ matched_requests[1]["input_tokens"] = None
    /\ matched_requests[1]["timestamp"] # api_requests[1]["timestamp"]
    /\ matched_requests[1]["assistant_message"] = Some("Hi there")
    /\ "cost_usd" \in DOMAIN matched_requests[1]

\* The telemetry record the identity tiers give for a: the first success record
\* with its request id, else the first query record with it, else 0.
IdentityMatch(a, events) ==
    IF SuccessIds(a, events) # {} THEN MinOf(SuccessIds(a, events))
    ELSE IF QueryIds(a, events) # {} THEN MinOf(QueryIds(a, events))
    ELSE 0

\* C7: the correlator never mutates or removes records.  No step of the loop
\* changes api_requests or statsig_events, which stay the lists the scan
\* accumulated from the file; and an API record that identity-matches a telemetry
\* record is matched with that record's fields, also when an earlier API record
\* has been matched to the same record.
C7_ListsUntouched ==
    [][pc = "correlate" =>
         /\ api_requests' = api_requests
         /\ statsig_events' = statsig_events
         /\ api_requests' = ScanAll(file).api
         /\ statsig_events' = ScanAll(file).tel
         /\ (AtRecord /\ IdentityMatch(api_requests[corr_idx], statsig_events) # 0) =>
               /\ MatchedStep
               /\ \A k \in DOMAIN statsig_events[IdentityMatch(api_requests[corr_idx], statsig_events)] :
                     LastMatched[k] =
                        statsig_events[IdentityMatch(api_requests[corr_idx], statsig_events)][k]]_vars

\* Two API records with the same request id have both been matched to the one
\* telemetry record that carries it, and the telemetry list still holds it.
C7_Witness ==
    /\ CorrelationFinished
    /\ Len(api_requests) = 2
    /\ Len(statsig_events) = 1
    /\ api_requests[1]["request_id"] = Some("r1")
    /\ api_requests[2]["request_id"] = Some("r1")
    /\ statsig_events[1]["request_id"] = Some("r1")
    /\ Len(matched_requests) = 2
    /\ \A k \in 1..2 : \A f \in DOMAIN statsig_events[1] :
          matched_requests[k][f] = statsig_events[1][f]

\* C10 as stated: for an API record whose request id no success or query record
\* carries, the iteration takes the first telemetry record whose timestamp differs
\* from the API record's by less than 5 seconds, and leaves the API record unmatched
\* when there is none.
C10_Original ==
    [][(AtRecord /\ IdentityMatch(api_requests[corr_idx], statsig_events) = 0) =>
          LET a == api_requests[corr_idx]
              W == InsideWindow(a, statsig_events)
          IN IF W # {}
             THEN MatchedStep /\ IsOverlay(LastMatched, a, statsig_events[MinOf(W)])
             ELSE UnmatchedStep]_vars

\* The same, for the iterations that line 243 does not leave by raising TypeError.
C10_WhenNoRaise ==
    [][(AtRecord /\ IdentityMatch(api_requests[corr_idx], statsig_events) = 0
               /\ pc' # "except") =>
          LET a == api_requests[corr_idx]
              W == InsideWindow(a, statsig_events)
          IN IF W # {}
             THEN MatchedStep /\ IsOverlay(LastMatched, a, statsig_events[MinOf(W)])
             ELSE UnmatchedStep]_vars

(***************************************************************************)
(* Claims about the scan and the extraction (Spec).                        *)
(***************************************************************************)
\* main has ended on a file that could be opened.
RunEnded == pc = "exit" /\ file_exists

\* C3 as stated: every API line with no requestId and no timestamp has, when the
\* run has ended, its record among unmatched_api_requests.
C3_Original ==
    RunEnded =>
        \A n \in 1..Len(file) :
            (file[n].json = "object" /\ file[n].api
                /\ file[n].requestId = None /\ file[n].ts = None)
            => \E k \in 1..Len(unmatched_api_requests) :
                  /\ unmatched_api_requests[k]["request_id"] = None
                  /\ unmatched_api_requests[k]["timestamp"] = None

\* The numbers of the lines json.loads cannot decode, in order.
UndecodableLines(lines) ==
    SelectSeq([n \in 1..Len(lines) |-> n], LAMBDA n : lines[n].json = "bad")
WithoutUndecodable(lines) == SelectSeq(lines, LAMBDA l : l.json # "bad")

\* C4 as stated: for every sequence of lines (here: once the scan has met an
\* undecodable line) the scan reaches end-of-file, there is
\* one diagnostic for each undecodable line, carrying its number, and the two lists
\* are those of the sequence without the undecodable lines; a file of undecodable
\* lines only yields no record and exit code 0.
C4_Original ==
    (RunEnded /\ warnings # << >>) =>
        /\ line_num = Len(file) + 1
        /\ warnings = UndecodableLines(file)
        /\ api_requests = ScanAll(WithoutUndecodable(file)).api
        /\ statsig_events = ScanAll(WithoutUndecodable(file)).tel
        /\ WithoutUndecodable(file) = << >> =>
              api_requests = << >> /\ statsig_events = << >> /\ exit_code = 0

\* What holds of the undecodable lines themselves: the step that meets one goes on
\* to the next line, adds its number to the diagnostics and changes neither list;
\* and whenever the scan ends, by end-of-file or by an exception of another line,
\* the diagnostics and the lists are those described in C4.
C4_DecodeErrorContained ==
    /\ (pc = "scan" /\ line_num <= Len(file) /\ file[line_num].json = "bad") =>
          ScanLine(ScanNow, file[line_num], line_num) =
              [ScanNow EXCEPT !.warn = Append(warnings, line_num)]
    /\ pc \in {"correlate", "summary"} =>
          /\ warnings = UndecodableLines(file)
          /\ api_requests = ScanAll(WithoutUndecodable(file)).api
          /\ statsig_events = ScanAll(WithoutUndecodable(file)).tel
    /\ (RunEnded /\ WithoutUndecodable(file) = << >>) =>
          api_requests = << >> /\ statsig_events = << >> /\ exit_code = 0

\* C5 as stated: no exception other than the failure to open the file leaves
\* analyze_log_file.
C5_Original == pc = "except" => error = "FileNotFoundError"

(***************************************************************************)
(* Claims about the SSE replay (SpecSse).                                  *)
(***************************************************************************)
\* The lines of the body the loop has gone through.
SseProcessed == SubSeq(sse_body, 1, sse_idx - 1)

\* An event whose branch assigns output_tokens: a message_start carrying a message
\* object (a usage object without output_tokens, or no usage object, gives unset),
\* or a message_delta carrying a usage object.
UsageBearing(l) ==
    /\ l.form = "event"
    /\ \/ l.type = "message_start" /\ l.shape \in {"ok", "no_usage"}
       \/ l.type = "message_delta" /\ l.shape = "ok"

LastOutputTokens(lines) ==
    LET idx == {i \in 1..Len(lines) : UsageBearing(lines[i])}
    IN IF idx = {} THEN None
       ELSE lines[CHOOSE i \in idx : \A j \in idx : j <= i].out

WellFormed(body) == SelectSeq(body, LAMBDA l : l.form = "event" /\ ~SseRaises(l))

\* C9 as stated: for every response body, lines 34-71 yield for the body what they
\* yield for its well-formed subsequence alone.
C9_Original == sse_pc = "done" => SseState = ReplaySse(WellFormed(sse_body))

\* C9 amended: the results for a body equal the results for its well-formed
\* subsequence alone whenever the test of line 40 gives the same answer for both
\* (the well-formed subsequence still holds the message_start marker, or the body
\* holds none); and an unrelated or failing line changes none of the five results.
C9_MalformedNoOp ==
    /\ (sse_pc = "done" /\ HasMarker(WellFormed(sse_body)) = HasMarker(sse_body))
        => SseState = ReplaySse(WellFormed(sse_body))
    /\ (sse_pc = "loop" /\ sse_idx <= Len(sse_body)
            /\ (sse_body[sse_idx].form # "event" \/ SseRaises(sse_body[sse_idx])))
        => SseStep(SseState, sse_body[sse_idx]) = SseState

\* A finished replay that went through a failing payload and an unrelated line
\* after it had recovered tokens and text.
C9_Witness ==
    /\ sse_pc = "done"
    /\ sse_idx > Len(sse_body)
    /\ \E i, j \in 1..Len(sse_body) :
          /\ i < j
          /\ UsageBearing(sse_body[i]) /\ sse_body[i].out # None
          /\ SseRaises(sse_body[j])
    /\ Len(WellFormed(sse_body)) < Len(sse_body)
    /\ output_tokens # None

(***************************************************************************)
(* Claim about the aggregates of the summary (SpecCorr).                   *)
(***************************************************************************)
\* The matched records whose field k is set.
WithField(matched, k) ==
    {i \in 1..Len(matched) : Has(matched[i], k) /\ matched[i][k] # None}

\* The sum of field k over the records of S, each of which has it set.
RECURSIVE SumOver(_, _, _)
SumOver(matched, k, S) ==
    IF S = {} THEN 0
    ELSE LET i == MinOf(S) IN matched[i][k][1] + SumOver(matched, k, S \ {i})

\* The total written under key t is the sum of field k over the records that
\* have it set.
TotalExcludesUnset(summary, t, k) ==
    summary[t] = SumOver(matched_requests, k, WithField(matched_requests, k))

\* The average written under key t is the mean of field k over the records
\* that have it set, when there is such a record.
AverageExcludesUnset(summary, t, k) ==
    LET S == WithField(matched_requests, k)
    IN  S # {} => summary[t].num * Cardinality(S)
                     = SumOver(matched_requests, k, S) * summary[t].den

\* The run went through the whole correlation loop, matched at least one
\* record, and has ended.
EndedWithMatches ==
    /\ pc = "exit"
    /\ CorrelationFinished
    /\ matched_requests # << >>

\* C11: whenever at least one matched record exists, the run does not fail
\* with exit code 1 because of an unset inputTokens, outputTokens, costUsd,
\* durationMs or ttftMs, and the summary's token totals, cost total and
\* average duration / ttft are computed over the matched records whose field
\* is set, an unset field not counting as zero.
C11_Original ==
    EndedWithMatches =>
        /\ exit_code = 0
        /\ analysis_summary # None
        /\ TotalExcludesUnset(analysis_summary[1], "total_input_tokens", "input_tokens")
        /\ TotalExcludesUnset(analysis_summary[1], "total_output_tokens", "output_tokens")
        /\ TotalExcludesUnset(analysis_summary[1], "total_cost", "cost_usd")
        /\ AverageExcludesUnset(analysis_summary[1], "avg_duration_ms", "duration_ms")
        /\ AverageExcludesUnset(analysis_summary[1], "avg_ttft_ms", "ttft_ms")

\* C11, the part about the values alone: in the runs that end with exit code
\* 0, the averages are over the matched records whose field is set.  The code
\* divides by the number of all matched records (lines 433-434), so a record
\* matched to a query event counts as zero in the average.
C11_AveragesWhenExitZero ==
    (EndedWithMatches /\ exit_code = 0) =>
        /\ AverageExcludesUnset(analysis_summary[1], "avg_duration_ms", "duration_ms")
        /\ AverageExcludesUnset(analysis_summary[1], "avg_ttft_ms", "ttft_ms")

\* C11, what the code does compute: in the runs that end with exit code 0,
\* no matched record holds None under any of the five fields, the totals
\* count an absent field as 0, and the averages divide by the number of all
\* matched records.
C11_ZeroForAbsent ==
    (EndedWithMatches /\ exit_code = 0) =>
        /\ \A i \in 1..Len(matched_requests) :
              \A k \in {"input_tokens", "output_tokens", "cost_usd", "duration_ms", "ttft_ms"} :
                 Has(matched_requests[i], k) => matched_requests[i][k] # None
        /\ TotalExcludesUnset(analysis_summary[1], "total_input_tokens", "input_tokens")
        /\ TotalExcludesUnset(analysis_summary[1], "total_output_tokens", "output_tokens")
        /\ TotalExcludesUnset(analysis_summary[1], "total_cost", "cost_usd")
        /\ analysis_summary[1]["avg_duration_ms"].den = Len(matched_requests)
        /\ analysis_summary[1]["avg_ttft_ms"].den = Len(matched_requests)

====
